---- MODULE Spec2Model ----
(***************************************************************************)
(* A model of the Accessible Technology Test Adapter (ATTA) of             *)
(* wai-aria/tools: the assertion engine of atta_assertion.py, the Atta     *)
(* base class of atta_base.py with the AtkAtta overrides of atk_atta.py,   *)
(* the request handler of atta_request_handler.py and the monolithic       *)
(* AtkAtspiAtta of atta-atk-atspi.py.                                      *)
(*                                                                         *)
(* A Python value is a record that carries its type name and its payload.  *)
(* A Python string is a sequence of one-character strings, so that         *)
(* substring tests and conversions are computed and not assumed.           *)
(***************************************************************************)
EXTENDS Integers, Sequences, FiniteSets, TLC

VARIABLES
    enabled,                \* Atta._enabled
    ready,                  \* Atta._ready
    next_test,              \* Atta._next_test, <<name, url>>
    current_document,       \* Atta._current_document
    monitored_event_types,  \* Atta._monitored_event_types
    event_history,          \* Atta._event_history
    registered,             \* listeners registered with the platform, per event type
    delivered,              \* test events delivered since the history was last emptied
    call,                   \* the last call made and its arguments
    ret,                    \* what that call returned or raised
    atta_class,             \* the class of the ATTA the request handler serves
    handler,                \* the server thread: the request it is handling
    listener                \* the listener thread: the load-complete callback it runs

vars == <<enabled, ready, next_test, current_document, monitored_event_types,
          event_history, registered, delivered, call, ret, atta_class, handler,
          listener>>

attaVars == <<enabled, ready, next_test, current_document, monitored_event_types,
              event_history, registered, delivered>>

handlerVars == <<atta_class, handler, listener>>

(***************************************************************************)
(* Python values                                                           *)
(***************************************************************************)
None == "None"

\* every value has every field, so that any two values can be compared:
\* s the characters of a str, n the int, b the bool, items the elements of a
\* list, d the <<key, value>> entries of a dict in insertion order
PyNone == [t |-> "NoneType", s |-> <<>>, n |-> 0, b |-> FALSE, items |-> <<>>, d |-> <<>>]

PyBool(b) == [PyNone EXCEPT !.t = "bool", !.b = b]

PyInt(n) == [PyNone EXCEPT !.t = "int", !.n = n]

PyStr(s) == [PyNone EXCEPT !.t = "str", !.s = s]

PyList(xs) == [PyNone EXCEPT !.t = "list", !.items = xs]

PyDict(entries) == [PyNone EXCEPT !.t = "dict", !.d = entries]

\* the keys of a dict
Keys(d) == {d.d[i][1] : i \in DOMAIN d.d}

\* d[key]
Get(d, key) == d.d[CHOOSE i \in DOMAIN d.d : d.d[i][1] = key][2]

Digits == <<"0", "1", "2", "3", "4", "5", "6", "7", "8", "9">>

RECURSIVE NatToStr(_)
NatToStr(n) ==
    IF n < 10 THEN <<Digits[n + 1]>>
    ELSE NatToStr(n \div 10) \o <<Digits[(n % 10) + 1]>>

\* str(n) of an int
IntToStr(n) == IF n < 0 THEN <<"-">> \o NatToStr(0 - n) ELSE NatToStr(n)

\* str(b) of a bool
BoolToStr(b) == IF b THEN <<"T", "r", "u", "e">> ELSE <<"F", "a", "l", "s", "e">>

LowerChar(c) == IF c = "T" THEN "t" ELSE IF c = "F" THEN "f" ELSE c

\* str.lower()
Lower(s) == [i \in DOMAIN s |-> LowerChar(s[i])]

\* e in a, for two strings
Occurs(e, a) ==
    /\ Len(e) <= Len(a)
    /\ \E i \in 0..(Len(a) - Len(e)) : SubSeq(a, i + 1, i + Len(e)) = e

\* a == b of Python, for the values modelled (no bool/int mixing arises: one
\* side is always a canonical string or list)
PyEq(a, b) == a = b

\* bool(a)
Truthy(a) ==
    CASE a.t = "NoneType" -> FALSE
      [] a.t = "bool" -> a.b
      [] a.t = "int" -> a.n # 0
      [] a.t = "dict" -> a.d # <<>>
      [] a.t = "list" -> a.items # <<>>
      [] a.t = "str" -> a.s # <<>>

\* the characters of the keys of the expected-properties dict
KeyChars ==
    [type |-> <<"t", "y", "p", "e">>,
     detail1 |-> <<"d", "e", "t", "a", "i", "l", "1">>,
     detail2 |-> <<"d", "e", "t", "a", "i", "l", "2">>,
     any_data |-> <<"a", "n", "y", "_", "d", "a", "t", "a">>]

EventKeys == DOMAIN KeyChars

\* whether "x in c" is defined; Python raises TypeError otherwise
InDefined(x, c) ==
    CASE c.t = "str" -> x.t = "str"
      [] c.t = "list" -> TRUE
      [] c.t = "dict" -> x.t \in {"str", "int", "bool", "NoneType"}
      [] OTHER -> FALSE

\* x in c
In(x, c) ==
    CASE c.t = "str" -> Occurs(x.s, c.s)
      [] c.t = "list" -> \E i \in DOMAIN c.items : PyEq(c.items[i], x)
      [] c.t = "dict" -> x.t = "str" /\ \E k \in Keys(c) : KeyChars[k] = x.s
      [] OTHER -> FALSE

s_String == <<"S", "t", "r", "i", "n", "g">>
s_Boolean == <<"B", "o", "o", "l", "e", "a", "n">>
s_Number == <<"N", "u", "m", "b", "e", "r">>
s_List == <<"L", "i", "s", "t">>
s_Undefined == <<"U", "n", "d", "e", "f", "i", "n", "e", "d">>
s_None == <<"N", "o", "n", "e">>

(***************************************************************************)
(* Atta.type_to_string and Atta.value_to_string                            *)
(***************************************************************************)
type_to_string(value) ==
    CASE value.t = "str" -> PyStr(s_String)
      [] value.t = "bool" -> PyStr(s_Boolean)
      [] value.t = "int" -> PyStr(s_Number)
      [] value.t \in {"tuple", "list", "set", "range", "dict"} -> PyStr(s_List)
      [] OTHER -> PyStr(s_Undefined)

\* a tuple, a set (its elements in one fixed order, without repetition) and a
\* float with the integer part n and the digits s after the point
PyTuple(xs) == [PyNone EXCEPT !.t = "tuple", !.items = xs]

Elements(xs) == {xs[i] : i \in DOMAIN xs}

SetToSeq(S) == CHOOSE q \in [1..Cardinality(S) -> S] : Elements(q) = S

PySet(S) == [PyNone EXCEPT !.t = "set", !.items = SetToSeq(S)]

PyFloat(n, digits) == [PyNone EXCEPT !.t = "float", !.n = n, !.s = digits]

PyRange == [PyNone EXCEPT !.t = "range"]

\* str(range), the class
s_class_range ==
    <<"<", "c", "l", "a", "s", "s", " ", "'", "r", "a", "n", "g", "e", "'", ">">>

\* str(value) for the values that reach the last line of value_to_string
PyRepr(value) == IF value.t = "NoneType" THEN s_None ELSE <<"?">>

\* str(value) of a float
FloatToStr(value) == IntToStr(value.n) \o <<".">> \o value.s

value_to_string_bool_unlowered(b) == PyStr(BoolToStr(b))

value_to_string_bool(b) == PyStr(Lower(BoolToStr(b)))

RECURSIVE value_to_string(_)
value_to_string(value) ==
    CASE value.t = "str" -> value
      [] value.t = "bool" -> value_to_string_bool(value.b)
      [] value.t = "int" -> PyStr(IntToStr(value.n))
      [] value.t = "float" -> PyStr(FloatToStr(value))
      [] value.t = "tuple" ->
            PyTuple([i \in DOMAIN value.items |-> value_to_string(value.items[i])])
      [] value.t = "list" ->
            PyList([i \in DOMAIN value.items |-> value_to_string(value.items[i])])
      [] value.t = "set" ->
            PySet({value_to_string(value.items[i]) : i \in DOMAIN value.items})
      [] value.t = "range" -> PyStr(s_class_range)
      [] value.t = "dict" ->
            \* the keys of the dicts modelled are strs, returned unchanged
            PyDict([i \in DOMAIN value.d |->
                      <<value.d[i][1], value_to_string(value.d[i][2])>>])
      [] OTHER -> PyStr(PyRepr(value))

(***************************************************************************)
(* AttaAssertion._get_result (atta_assertion.py)                           *)
(***************************************************************************)
STATUS_PASS == "PASS"
STATUS_FAIL == "FAIL"
STATUS_NOT_RUN == "NOT RUN"

Expectations == {"is", "isNot", "contains", "doesNotContain", "isAny", "isType",
                 "exists", "isLT"}

\* the value _get_result stores in _actual_value
ActualValue(expectation, value) ==
    IF expectation = "isType" THEN type_to_string(value) ELSE value_to_string(value)

\* whether the comparison of the verb raises TypeError
ComparisonRaises(expectation, expected, actual) ==
    CASE expectation \in {"contains", "doesNotContain"} ->
            Truthy(actual) /\ ~InDefined(expected, actual)
      [] expectation = "isAny" -> ~InDefined(actual, expected)
      [] OTHER -> FALSE

contains_without_guard(expected, actual) == In(expected, actual)

\* self._actual_value and self._expected_value in self._actual_value
contains(expected, actual) == Truthy(actual) /\ In(expected, actual)

\* the truth value of "result"
Comparison(expectation, expected, actual) ==
    CASE expectation = "is" -> PyEq(expected, actual)
      [] expectation = "isNot" -> ~PyEq(expected, actual)
      [] expectation = "contains" -> contains(expected, actual)
      [] expectation = "doesNotContain" -> Truthy(actual) /\ ~In(expected, actual)
      [] expectation = "isAny" -> In(actual, expected)
      [] expectation = "isType" -> PyEq(actual, expected)
      [] expectation = "exists" -> PyEq(expected, actual)
      [] OTHER -> FALSE

\* _get_result on an assertion whose _get_value returned value: the exception
\* raised (or None), the status and the actual value the assertion is left with
AttaAssertion_get_result(expectation, expected, value) ==
    LET actual == ActualValue(expectation, value) IN
    IF ComparisonRaises(expectation, expected, actual)
    THEN [raised |-> "TypeError", status |-> STATUS_NOT_RUN, actual |-> actual]
    ELSE [raised |-> None,
          status |-> IF Comparison(expectation, expected, actual)
                     THEN STATUS_PASS ELSE STATUS_FAIL,
          actual |-> actual]

(***************************************************************************)
(* Accessibility events and EventAssertion.__init__ (atk_atta.py; the same *)
(* code is in atta-atk-atspi.py)                                           *)
(***************************************************************************)
IsNumeric(s) == Len(s) > 0 /\ \A i \in DOMAIN s : \E d \in DOMAIN Digits : Digits[d] = s[i]

DigitValue(c) == (CHOOSE d \in DOMAIN Digits : Digits[d] = c) - 1

RECURSIVE StrToNat(_)
StrToNat(s) ==
    IF Len(s) = 1 THEN DigitValue(s[1])
    ELSE 10 * StrToNat(SubSeq(s, 1, Len(s) - 1)) + DigitValue(s[Len(s)])

\* int(x) raises ValueError on a string that is no number
IntRaises(x) == x.t = "str" /\ ~IsNumeric(x.s)

\* int(x)
Int_(x) == IF x.t = "int" THEN x.n ELSE StrToNat(x.s)

\* dict.get(key) is not None
Has(d, key) == key \in Keys(d)

\* the filters of EventAssertion.__init__ that are applied once "matches" is bound
MatchesDetails(e, d) ==
    /\ Has(d, "detail1") => e.detail1 = Int_(Get(d, "detail1"))
    /\ Has(d, "detail2") => e.detail2 = Int_(Get(d, "detail2"))
    /\ Has(d, "any_data") => PyEq(e.any_data, Get(d, "any_data"))

\* EventAssertion.__init__(obj, assertion, atta) with the event history events:
\* the exception raised (or None) and _matching_events
EventAssertion_init(expected, events) ==
    IF expected.t # "dict"
    THEN [raised |-> "AttributeError", matching |-> <<>>]
    ELSE IF ~Has(expected, "type")
    THEN \* "matches" is read before it is bound
         [raised |-> "UnboundLocalError", matching |-> <<>>]
    ELSE LET bad(k) == Has(expected, k) /\ IntRaises(Get(expected, k))
             typed == SelectSeq(events, LAMBDA e : PyEq(PyStr(e.type), Get(expected, "type")))
             \* the filters are lazy: int() runs once per event that reaches it
             raises1 == typed # <<>> /\ bad("detail1")
             after1 == IF Has(expected, "detail1") /\ ~raises1
                       THEN SelectSeq(typed, LAMBDA e : e.detail1 = Int_(Get(expected, "detail1")))
                       ELSE typed
             raises2 == after1 # <<>> /\ bad("detail2")
         IN IF raises1 \/ raises2
            THEN [raised |-> "ValueError", matching |-> <<>>]
            ELSE [raised |-> None,
                  matching |-> SelectSeq(typed, LAMBDA e : MatchesDetails(e, expected))]

\* EventAssertion._get_result of atta-atk-atspi.py
AtkAtspi_EventAssertion_get_result(matching) ==
    IF matching # <<>> THEN STATUS_PASS ELSE STATUS_FAIL

(***************************************************************************)
(* Running one assertion: Assertion.get_test_class (atk_atta.py) and       *)
(* Atta._run_test (atta_base.py)                                           *)
(***************************************************************************)
CLASS_EVENT == "event"

TestClasses == {"event", "property", "relation", "result", "TBD"}

\* Assertion.get_test_class(assertion): the class returned, or the exception.
\* AttaAssertion defines no get_test_class, so super().get_test_class raises.
get_test_class(assertion) ==
    IF assertion[1] = CLASS_EVENT
    THEN [raised |-> None, cls |-> "EventAssertion"]
    ELSE [raised |-> "AttributeError", cls |-> None]

Raise(exc) == [raised |-> exc, result |-> None, message |-> None, log |-> None]

\* the dict _run_test returns
ResultsDict(result) ==
    [raised |-> None, result |-> result, message |-> "message", log |-> "log"]

\* Atta._run_test(obj, assertion) of an AtkAtta whose event history is events
run_test(assertion, events) ==
    LET tc == get_test_class(assertion) IN
    IF tc.raised # None THEN Raise(tc.raised)
    ELSE IF tc.cls = None THEN ResultsDict(STATUS_FAIL)
    ELSE LET made == EventAssertion_init(assertion[4], events) IN
         IF made.raised # None THEN Raise(made.raised)
         ELSE \* EventAssertion has no _get_value and no _get_result of its own:
              \* run() compares the expected properties with str(None)
              LET got == AttaAssertion_get_result(assertion[3], assertion[4], PyNone) IN
              IF got.raised # None THEN Raise(got.raised)
              ELSE IF got.status = STATUS_PASS THEN ResultsDict(STATUS_PASS)
              ELSE \* test.is_known_issue() is defined nowhere
                   Raise("AttributeError")

(***************************************************************************)
(* AtkAtta._create_platform_assertions (atk_atta.py)                       *)
(***************************************************************************)
is_event(x) == Len(x) > 0 /\ x[1] = "event"

SetItemKeepingFirst(entries, name, value) ==
    IF \E i \in DOMAIN entries : entries[i][1] = name
    THEN entries
    ELSE Append(entries, <<name, value>>)

\* properties[name] = value: a new key is appended, an old one keeps its place
SetItem(entries, name, value) ==
    IF \E i \in DOMAIN entries : entries[i][1] = name
    THEN [i \in DOMAIN entries |->
            IF entries[i][1] = name THEN <<name, value>> ELSE entries[i]]
    ELSE Append(entries, <<name, value>>)

\* the loop "for test, name, verb, value in event_assertions"
RECURSIVE Combine(_, _)
Combine(event_assertions, properties) ==
    IF event_assertions = <<>> THEN properties
    ELSE LET a == Head(event_assertions)
         IN Combine(Tail(event_assertions), SetItem(properties, a[2], a[4]))

create_platform_assertions(assertions) ==
    LET event_assertions == SelectSeq(assertions, is_event)
        in_events(x) == \E i \in DOMAIN event_assertions : event_assertions[i] = x
        platform_assertions == SelectSeq(assertions, LAMBDA x : ~in_events(x))
        properties == Combine(event_assertions, <<>>)
    IN IF event_assertions = <<>> THEN assertions
       ELSE Append(platform_assertions,
                   <<"event", "event", "contains", PyDict(properties)>>)

(***************************************************************************)
(* Inputs of the assertion engine                                          *)
(***************************************************************************)
s_a == <<"a">>
s_ab == <<"a", "b">>
s_true == <<"t", "r", "u", "e">>
s_1 == <<"1">>

StrPool == {<<>>, s_a, s_ab, s_true, s_1}

TypeNames == {s_String, s_Boolean, s_Number, s_List, s_Undefined}

\* what a _get_value of the platform can return
RetrievedValues ==
    {PyNone, PyBool(TRUE), PyBool(FALSE), PyInt(1), PyInt(12)}
    \cup {PyStr(s) : s \in StrPool}
    \cup {PyList(<<>>), PyList(<<PyStr(s_a)>>), PyList(<<PyStr(s_a), PyStr(s_ab)>>),
          PyList(<<PyBool(TRUE)>>)}

ExpectedStrings == {PyStr(s) : s \in StrPool \cup TypeNames}

ExpectedLists ==
    {PyList(<<>>), PyList(<<PyStr(s_a), PyStr(s_true)>>), PyList(<<PyStr(s_1)>>)}

\* the expected values the harness sends with a verb: a list of alternatives
\* with isAny, a string otherwise
ExpectedFor(expectation) ==
    IF expectation = "isAny" THEN ExpectedLists ELSE ExpectedStrings

MaxEvents == 2

MaxAssertions == 3

\* the events in the history a single assertion is run on
MaxRunEvents == 1

SeqsUpTo(S, n) == UNION {[1..k -> S] : k \in 0..n}

\* events the platform can deliver; source is the accessible that emitted it
EventsFrom(sources) ==
    {[type |-> ty, detail1 |-> d1, detail2 |-> 0, any_data |-> PyStr(s_a), source |-> src] :
        ty \in {s_a, s_ab}, d1 \in {0, 1}, src \in sources}

\* the expected values the harness gives for an event attribute
ExpectedAttr(k) ==
    CASE k = "type" -> {PyStr(s_a), PyStr(s_ab)}
      [] k = "detail1" -> {PyStr(<<"0">>), PyStr(s_1)}
      [] k = "detail2" -> {PyStr(<<"0">>), PyStr(s_1)}
      [] k = "any_data" -> {PyStr(s_a), PyStr(s_ab)}

\* the dicts of expected event properties: any subset of the attributes
KeyOrder == <<"type", "detail1", "detail2", "any_data">>

\* the dicts of expected event properties: any subset of the attributes
ExpectedDicts ==
    {PyDict(SelectSeq([i \in 1..4 |-> <<KeyOrder[i], f[KeyOrder[i]]>>],
                      LAMBDA kv : kv[1] \in K)) :
        K \in SUBSET EventKeys,
        f \in [type : ExpectedAttr("type"), detail1 : ExpectedAttr("detail1"),
               detail2 : ExpectedAttr("detail2"), any_data : ExpectedAttr("any_data")]}

\* assertions as the harness sends them: [test class, name, verb, value]
HarnessAssertions ==
    {<<"property", "role", "is", PyStr(s_a)>>,
     <<"relation", "RELATION_LABELLED_BY", "is", PyStr(s_ab)>>,
     <<"result", "atk_value_get_value", "is", PyStr(s_1)>>,
     <<"TBD", "x", "is", PyStr(s_a)>>,
     <<"event", "type", "is", PyStr(s_a)>>,
     <<"event", "type", "is", PyStr(s_ab)>>,
     <<"event", "detail1", "is", PyStr(s_1)>>}

\* the combined event assertions _create_platform_assertions produces, with
\* any verb
CombinedAssertions ==
    {<<"event", "event", verb, d>> : verb \in {"contains", "isNot", "is"},
                                    d \in ExpectedDicts}

(***************************************************************************)
(* The assertion engine applied to drawn inputs                            *)
(***************************************************************************)
\* the server thread between requests and the listener thread between callbacks
HandlerIdle ==
    [pc |-> "idle", path |-> None, test |-> None, url |-> "", events |-> <<>>,
     error |-> "", status |-> None, raised |-> None, found |-> FALSE]

\* the event a callback that is not a test-event callback holds
NoEvent ==
    [type |-> <<>>, detail1 |-> 0, detail2 |-> 0, any_data |-> PyNone, source |-> None]

ListenerIdle ==
    [pc |-> "idle", source |-> None, test_name |-> None, test_uri |-> "",
     data |-> NoEvent]

NoCall == [op |-> "none"]

AttaIdle ==
    /\ enabled = FALSE
    /\ ready = FALSE
    /\ next_test = <<None, "">>
    /\ current_document = None
    /\ monitored_event_types = <<>>
    /\ event_history = <<>>
    /\ registered = <<>>
    /\ delivered = 0
    /\ atta_class = "Atta"
    /\ handler = HandlerIdle
    /\ listener = ListenerIdle

InitPure ==
    /\ AttaIdle
    /\ call = NoCall
    /\ ret = NoCall

Do_get_result ==
    /\ call = NoCall
    /\ \E expectation \in Expectations :
         \E expected \in ExpectedFor(expectation), value \in RetrievedValues :
           /\ call' = [op |-> "_get_result", expectation |-> expectation,
                       expected |-> expected, value |-> value]
           /\ ret' = AttaAssertion_get_result(expectation, expected, value)
           /\ UNCHANGED <<attaVars, handlerVars>>

\* an event assertion is built on a history and run, by the EventAssertion of
\* atk_atta.py or by that of atta-atk-atspi.py
Do_EventAssertion ==
    /\ call = NoCall
    /\ \E impl \in {"atk_atta", "atta-atk-atspi"}, expected \in ExpectedDicts,
          events \in SeqsUpTo(EventsFrom({"e1"}), MaxEvents) :
           /\ call' = [op |-> "EventAssertion", impl |-> impl, expected |-> expected,
                       events |-> events]
           /\ ret' = LET made == EventAssertion_init(expected, events)
                         got == AttaAssertion_get_result("contains", expected, PyNone)
                     IN [built |-> made.raised, matching |-> made.matching,
                         raised |-> IF made.raised # None THEN made.raised
                                    ELSE IF impl = "atk_atta" THEN got.raised
                                    ELSE None,
                         status |-> IF made.raised # None THEN STATUS_NOT_RUN
                                    ELSE IF impl = "atk_atta" THEN got.status
                                    ELSE AtkAtspi_EventAssertion_get_result(made.matching)]
           /\ UNCHANGED <<attaVars, handlerVars>>

Do_run_test ==
    /\ call = NoCall
    /\ \E assertion \in HarnessAssertions \cup CombinedAssertions,
          events \in SeqsUpTo(EventsFrom({"e1"}), MaxRunEvents) :
           /\ call' = [op |-> "_run_test", assertion |-> assertion, events |-> events]
           /\ ret' = run_test(assertion, events)
           /\ UNCHANGED <<attaVars, handlerVars>>

Do_create_platform_assertions ==
    /\ call = NoCall
    /\ \E assertions \in SeqsUpTo(HarnessAssertions \cup {<<>>}, MaxAssertions) :
           /\ call' = [op |-> "_create_platform_assertions", assertions |-> assertions]
           /\ ret' = create_platform_assertions(assertions)
           /\ UNCHANGED <<attaVars, handlerVars>>

(***************************************************************************)
(* The platform: documents, their elements and their URIs                  *)
(***************************************************************************)
Documents == {"d1", "d2"}

Accessibles == {"d1", "d2", "e1", "e2"}

\* Atspi.Accessible.get_parent
ParentOf == [d1 |-> None, d2 |-> None, e1 |-> "d1", e2 |-> "d2"]

ChildrenOf == [d1 |-> <<"e1">>, d2 |-> <<"e2">>, e1 |-> <<>>, e2 |-> <<>>]

\* the id attribute of an accessible, as AtkAtta._get_id returns it
IdOf == [d1 |-> "", d2 |-> "", e1 |-> "id1", e2 |-> "id2"]

\* the URI a document is loaded from
UriOf == [d1 |-> "u1", d2 |-> "u2"]

\* AtkAtta._get_uri(document): the document's URI, or "" upon failure
get_uri(document) == {UriOf[document], ""}

\* the tests the harness starts: <<name, url>>
Tests == {<<"t1", "u1">>, <<"t2", "u2">>, <<"t0", "">>}

EventTypes == {s_a, s_ab}

\* the test events the platform delivers
TestEvents == {e \in EventsFrom({"e1", "e2", "d1"}) : e.detail1 = 1}

MaxRegistrations == 2

\* the event types of one startlisten request
MaxTypes == 1

(***************************************************************************)
(* Atta (atta_base.py) with the overrides of AtkAtta (atk_atta.py)         *)
(***************************************************************************)
Init ==
    /\ enabled \in BOOLEAN
    /\ ready = FALSE
    /\ next_test = <<None, "">>
    /\ current_document = None
    /\ monitored_event_types = <<>>
    /\ event_history = <<>>
    /\ registered = [ty \in EventTypes |-> 0]
    /\ delivered = 0
    /\ call = NoCall
    /\ ret = NoCall
    /\ atta_class = "Atta"
    /\ handler = HandlerIdle
    /\ listener = ListenerIdle

\* Atta.is_ready(document) when _get_uri gives uri: the value returned and the
\* _ready and _current_document it leaves
is_ready(document, uri) ==
    LET doc == IF document # None THEN document ELSE current_document
        now == uri # "" /\ uri = next_test[2]
    IN IF ready
       THEN [result |-> TRUE, ready |-> TRUE, document |-> current_document]
       ELSE IF next_test[1] = None \/ doc = None
       THEN [result |-> FALSE, ready |-> FALSE, document |-> current_document]
       ELSE [result |-> now, ready |-> now,
             document |-> IF now THEN doc ELSE current_document]

\* the URIs _get_uri can give is_ready for its document argument
UrisSeen(document) ==
    LET doc == IF document # None THEN document ELSE current_document
    IN IF doc = None THEN {""} ELSE get_uri(doc)

Do_is_ready ==
    \E uri \in UrisSeen(None) :
        LET r == is_ready(None, uri) IN
        /\ ready' = r.ready
        /\ current_document' = r.document
        /\ call' = [op |-> "is_ready"]
        /\ ret' = [result |-> r.result]
        /\ UNCHANGED handlerVars
        /\ UNCHANGED <<enabled, next_test, monitored_event_types, event_history,
                       registered, delivered>>

start_test_run ==
    \E test \in Tests :
        /\ next_test' = test
        /\ ready' = FALSE
        /\ call' = [op |-> "start_test_run"]
        /\ ret' = [result |-> None]
        /\ UNCHANGED handlerVars
        /\ UNCHANGED <<enabled, current_document, monitored_event_types,
                       event_history, registered, delivered>>

\* AtkAtta._on_load_complete(data), run by the listener thread that start()
\* creates when the ATTA is enabled
on_load_complete ==
    \E source \in Documents :
      \E uri \in UrisSeen(source) :
        LET r == is_ready(source, uri) IN
        /\ enabled
        /\ ready' = r.ready
        /\ current_document' = r.document
        /\ call' = [op |-> "_on_load_complete"]
        /\ ret' = [result |-> None]
        /\ UNCHANGED handlerVars
        /\ UNCHANGED <<enabled, next_test, monitored_event_types, event_history,
                       registered, delivered>>

RECURSIVE RegisterAll(_, _)
RegisterAll(event_types, reg) ==
    IF event_types = <<>> THEN reg
    ELSE RegisterAll(Tail(event_types),
                     [reg EXCEPT ![Head(event_types)] = @ + 1])

\* Atspi.EventListener.deregister(listener, event_type) for each type of the
\* list: the platform drops every registration of the listener for the type
RECURSIVE DeregisterAll(_, _)
DeregisterAll(event_types, reg) ==
    IF event_types = <<>> THEN reg
    ELSE DeregisterAll(Tail(event_types), [reg EXCEPT ![Head(event_types)] = 0])

start_listen_keeping_history(event_types) ==
    /\ monitored_event_types' = event_types
    /\ event_history' = event_history
    /\ registered' = RegisterAll(event_types, registered)

start_listen_body(event_types) ==
    /\ monitored_event_types' = event_types
    /\ event_history' = <<>>
    /\ registered' = RegisterAll(event_types, registered)

start_listen ==
    \E event_types \in SeqsUpTo(EventTypes, MaxTypes) :
        /\ \A ty \in EventTypes :
              RegisterAll(event_types, registered)[ty] <= MaxRegistrations
        /\ start_listen_body(event_types)
        /\ delivered' = 0
        /\ call' = [op |-> "start_listen", event_types |-> event_types]
        /\ ret' = [result |-> None]
        /\ UNCHANGED handlerVars
        /\ UNCHANGED <<enabled, ready, next_test, current_document>>

stop_listen ==
    /\ registered' = DeregisterAll(monitored_event_types, registered)
    /\ monitored_event_types' = <<>>
    /\ event_history' = <<>>
    /\ delivered' = 0
    /\ call' = [op |-> "stop_listen"]
    /\ ret' = [result |-> None]
    /\ UNCHANGED handlerVars
    /\ UNCHANGED <<enabled, ready, next_test, current_document>>

end_test_run ==
    /\ current_document' = None
    /\ next_test' = <<None, "">>
    /\ ready' = FALSE
    /\ call' = [op |-> "end_test_run"]
    /\ ret' = [result |-> None]
    /\ UNCHANGED handlerVars
    /\ UNCHANGED <<enabled, monitored_event_types, event_history, registered,
                   delivered>>

\* Atta._find_ancestor(obj, pred) with pred = "is the current document"
RECURSIVE find_ancestor(_, _)
find_ancestor(obj, document) ==
    IF obj = None \/ ParentOf[obj] = None THEN None
    ELSE IF ParentOf[obj] = document THEN ParentOf[obj]
    ELSE find_ancestor(ParentOf[obj], document)

\* Atta._in_current_document(obj)
in_current_document(obj) ==
    IF current_document = None THEN FALSE
    ELSE find_ancestor(obj, current_document) # None

\* AtkAtta._on_test_event(data), run by the listener thread for an event of a
\* type that is registered
on_test_event ==
    \E data \in TestEvents :
        /\ enabled
        /\ registered[data.type] > 0
        /\ delivered < MaxEvents
        /\ delivered' = delivered + 1
        /\ event_history' = IF in_current_document(data.source)
                            THEN Append(event_history, data) ELSE event_history
        /\ call' = [op |-> "_on_test_event", source |-> data.source]
        /\ ret' = [result |-> None]
        /\ UNCHANGED handlerVars
        /\ UNCHANGED <<enabled, ready, next_test, current_document,
                       monitored_event_types, registered>>

\* Atta._find_descendant(root, pred) with pred = "has the id element_id"
RECURSIVE find_descendant(_, _)
find_descendant(root, element_id) ==
    IF root = None \/ IdOf[root] = element_id THEN root
    ELSE LET RECURSIVE first(_)
             first(children) ==
                IF children = <<>> THEN None
                ELSE LET element == find_descendant(Head(children), element_id)
                     IN IF element # None THEN element ELSE first(Tail(children))
         IN first(ChildrenOf[root])

\* Atta._get_element_with_id(root, element_id)
get_element_with_id(root, element_id) ==
    IF element_id = "" THEN None ELSE find_descendant(root, element_id)

STATUS_ERROR == "ERROR"
STATUS_OK == "OK"
FAILURE_ATTA_NOT_ENABLED == "ATTA not enabled"
FAILURE_ATTA_NOT_READY == "ATTA not ready"

\* the results of running the assertions in turn, up to the first that raises
RECURSIVE run_all(_, _, _)
run_all(to_run, events, done) ==
    IF to_run = <<>> THEN done
    ELSE LET r == run_test(Head(to_run), events)
         IN IF r.raised # None THEN Append(done, r)
            ELSE run_all(Tail(to_run), events, Append(done, r))

\* what run_tests returns when it refuses; evaluated counts the assertions run
\* and looked_up tells whether the element was searched for
Refusal(message) ==
    [raised |-> None, status |-> STATUS_ERROR, message |-> message, results |-> <<>>,
     evaluated |-> 0, looked_up |-> FALSE, obj |-> None, to_run |-> <<>>]

\* lines 230-240 of run_tests, on the current document
run_tests_when_ready(obj_id, assertions, document) ==
    LET to_run == create_platform_assertions(assertions)
        obj == get_element_with_id(document, obj_id)
        results == run_all(to_run, event_history, <<>>)
        failed == results # <<>> /\ results[Len(results)].raised # None
    IN [raised |-> IF failed THEN results[Len(results)].raised ELSE None,
        status |-> IF failed THEN None ELSE STATUS_OK,
        message |-> None,
        results |-> IF failed THEN <<>> ELSE results,
        evaluated |-> Len(results), looked_up |-> TRUE, obj |-> obj,
        to_run |-> to_run]

\* the assertion lists of a test request
Requests ==
    {<<>>,
     <<(<<"property", "role", "is", PyStr(s_a)>>)>>,
     <<(<<"event", "type", "is", PyStr(s_a)>>), (<<"property", "role", "is", PyStr(s_a)>>)>>}

run_tests_ignoring_ready(obj_id, assertions, r) ==
    IF ~enabled THEN Refusal(FAILURE_ATTA_NOT_ENABLED)
    ELSE run_tests_when_ready(obj_id, assertions, r.document)

\* the response of run_tests, given what its call of is_ready gave
run_tests_response(obj_id, assertions, r) ==
    IF ~enabled THEN Refusal(FAILURE_ATTA_NOT_ENABLED)
    ELSE IF ~r.result THEN Refusal(FAILURE_ATTA_NOT_READY)
    ELSE run_tests_when_ready(obj_id, assertions, r.document)

run_tests ==
    \E obj_id \in {"id1", "id9"}, assertions \in Requests :
      \E uri \in UrisSeen(None) :
        LET r == IF enabled THEN is_ready(None, uri)
                 ELSE [result |-> FALSE, ready |-> ready, document |-> current_document]
        IN /\ ready' = r.ready
           /\ current_document' = r.document
           /\ call' = [op |-> "run_tests", obj_id |-> obj_id, assertions |-> assertions]
           /\ ret' = run_tests_response(obj_id, assertions, r)
           /\ UNCHANGED handlerVars
           /\ UNCHANGED <<enabled, next_test, monitored_event_types, event_history,
                          registered, delivered>>

Next ==
    \/ Do_is_ready
    \/ start_test_run
    \/ on_load_complete
    \/ start_listen
    \/ on_test_event
    \/ run_tests
    \/ stop_listen
    \/ end_test_run

Spec == Init /\ [][Next]_vars

(***************************************************************************)
(* The request handler serving an ATTA.  HTTPServer handles one request at *)
(* a time on the server thread, while the listener thread runs the         *)
(* platform's callbacks.  The handler is served either an Atta of          *)
(* atta_base.py (AtkAtta) or the AtkAtspiAtta of atta-atk-atspi.py.        *)
(***************************************************************************)
AttaClasses == {"Atta", "AtkAtspiAtta"}

\* the methods the handler calls that each class defines
MethodsOf ==
    [Atta |-> {"get_info", "is_ready", "run_tests", "end_test_run"},
     AtkAtspiAtta |-> {"get_info", "set_next_test", "is_ready", "monitor_events",
                       "stop_event_monitoring", "run_tests", "end_test_run"}]

\* the requests of the harness: get_params leaves an error when a parameter
\* is missing
HandlerRequests ==
    {[HandlerIdle EXCEPT !.pc = "dispatch", !.path = "start", !.test = t[1], !.url = t[2]]
        : t \in Tests}
    \cup {[HandlerIdle EXCEPT !.pc = "dispatch", !.path = "start",
                              !.error = "Parameter url not found"]}
    \cup {[HandlerIdle EXCEPT !.pc = "dispatch", !.path = "startlisten", !.events = ev]
             : ev \in SeqsUpTo(EventTypes, MaxTypes) \ {<<>>}}
    \cup {[HandlerIdle EXCEPT !.pc = "dispatch", !.path = "startlisten",
                              !.error = "Parameter events not found"]}
    \cup {[HandlerIdle EXCEPT !.pc = "dispatch", !.path = p] : p \in {"stoplisten", "end"}}

InitHandler ==
    /\ enabled = TRUE
    /\ ready = FALSE
    /\ next_test = <<None, "">>
    /\ current_document = None
    /\ monitored_event_types = <<>>
    /\ event_history = <<>>
    /\ registered = [ty \in EventTypes |-> 0]
    /\ delivered = 0
    /\ call = NoCall
    /\ ret = NoCall
    /\ atta_class \in AttaClasses
    /\ handler = HandlerIdle
    /\ listener = ListenerIdle

\* the server thread takes the next request
dispatch ==
    \E request \in HandlerRequests :
        /\ handler.pc \in {"idle", "done"}
        /\ handler' = request
        /\ UNCHANGED <<attaVars, call, ret, atta_class, listener>>

Responded(status) == [handler EXCEPT !.pc = "done", !.status = status]

\* the call of a method the ATTA does not define ends the request without a
\* response
Raised(exc) == [handler EXCEPT !.pc = "done", !.raised = exc]

\* AttaRequestHandler.start_test up to the first statement of set_next_test
AttaRequestHandler_start_test ==
    /\ handler.pc = "dispatch" /\ handler.path = "start"
    /\ IF handler.error # ""
       THEN handler' = Responded("ERROR") /\ UNCHANGED next_test
       ELSE IF "set_next_test" \notin MethodsOf[atta_class]
       THEN handler' = Raised("AttributeError") /\ UNCHANGED next_test
       ELSE /\ next_test' = <<handler.test, handler.url>>
            /\ handler' = [handler EXCEPT !.pc = "set_next_test"]
    /\ UNCHANGED <<enabled, ready, current_document, monitored_event_types,
                   event_history, registered, delivered, call, ret, atta_class,
                   listener>>

\* the second statement of AtkAtspiAtta.set_next_test
set_next_test_ready ==
    /\ handler.pc = "set_next_test"
    /\ ready' = FALSE
    /\ handler' = [handler EXCEPT !.pc = "wait"]
    /\ UNCHANGED <<enabled, next_test, current_document, monitored_event_types,
                   event_history, registered, delivered, call, ret, atta_class,
                   listener>>

\* the loop "while not self._atta.is_ready(): pass" ends, and READY is sent
AttaRequestHandler_start_test_ready ==
    /\ handler.pc = "wait"
    /\ ready
    /\ handler' = Responded("READY")
    /\ UNCHANGED <<attaVars, call, ret, atta_class, listener>>

\* AttaRequestHandler.start_listen with AtkAtspiAtta.monitor_events
AttaRequestHandler_start_listen ==
    /\ handler.pc = "dispatch" /\ handler.path = "startlisten"
    /\ IF handler.error # ""
       THEN handler' = Responded("ERROR")
            /\ UNCHANGED <<monitored_event_types, registered>>
       ELSE IF "monitor_events" \notin MethodsOf[atta_class]
       THEN handler' = Raised("AttributeError")
            /\ UNCHANGED <<monitored_event_types, registered>>
       ELSE /\ \A ty \in EventTypes :
                 RegisterAll(handler.events, registered)[ty] <= MaxRegistrations
            /\ registered' = RegisterAll(handler.events, registered)
            /\ monitored_event_types' = monitored_event_types \o handler.events
            /\ handler' = Responded("READY")
    /\ UNCHANGED <<enabled, ready, next_test, current_document, event_history,
                   delivered, call, ret, atta_class, listener>>

\* AtkAtspiAtta.stop_event_monitoring
stop_event_monitoring ==
    /\ registered' = DeregisterAll(monitored_event_types, registered)
    /\ monitored_event_types' = <<>>
    /\ event_history' = <<>>

\* AttaRequestHandler.stop_listen
AttaRequestHandler_stop_listen ==
    /\ handler.pc = "dispatch" /\ handler.path = "stoplisten"
    /\ IF "stop_event_monitoring" \notin MethodsOf[atta_class]
       THEN handler' = Raised("AttributeError")
            /\ UNCHANGED <<monitored_event_types, event_history, registered>>
       ELSE stop_event_monitoring /\ handler' = Responded("READY")
    /\ UNCHANGED <<enabled, ready, next_test, current_document, delivered, call, ret,
                   atta_class, listener>>

\* AttaRequestHandler.end_test with the end_test_run of either class
AttaRequestHandler_end_test ==
    /\ handler.pc = "dispatch" /\ handler.path = "end"
    /\ IF atta_class = "AtkAtspiAtta"
       THEN stop_event_monitoring /\ UNCHANGED <<next_test, ready>>
       ELSE /\ next_test' = <<None, "">>
            /\ ready' = FALSE
            /\ UNCHANGED <<monitored_event_types, event_history, registered>>
    /\ current_document' = None
    /\ handler' = Responded("DONE")
    /\ UNCHANGED <<enabled, delivered, call, ret, atta_class, listener>>

\* AtkAtspiAtta._on_load_complete(event), first statements: the listener
\* thread reads _next_test and returns when no test is set
AtkAtspi_on_load_complete ==
    \E source \in Documents :
        /\ atta_class = "AtkAtspiAtta" /\ enabled
        /\ listener.pc = "idle"
        /\ listener' = IF next_test[1] = None THEN ListenerIdle
                       ELSE [ListenerIdle EXCEPT !.pc = "get_uri", !.source = source,
                                                 !.test_name = next_test[1],
                                                 !.test_uri = next_test[2]]
        /\ UNCHANGED <<attaVars, call, ret, atta_class, handler>>

\* a start request is being handled and has not been answered
StartPending == handler.path = "start" /\ handler.pc \in {"dispatch", "set_next_test", "wait"}

\* the listener thread asks the platform for the URI of the event's source and
\* assigns "uri and uri == test_uri" to _ready; handler.found records that a
\* document with the URI of the pending start request was found
AtkAtspi_on_load_complete_uri ==
    /\ listener.pc = "get_uri"
    /\ \E uri \in get_uri(listener.source) :
        /\ ready' = (uri # "" /\ uri = listener.test_uri)
        /\ listener' = [listener EXCEPT !.pc = "if_ready"]
        /\ handler' = IF StartPending /\ uri # "" /\ uri = handler.url
                      THEN [handler EXCEPT !.found = TRUE] ELSE handler
        /\ UNCHANGED <<enabled, next_test, current_document, monitored_event_types,
                       event_history, registered, delivered, call, ret, atta_class>>

\* "if self._ready:" the listener thread keeps the source as current document
AtkAtspi_on_load_complete_document ==
    /\ listener.pc = "if_ready"
    /\ current_document' = IF ready THEN listener.source ELSE current_document
    /\ listener' = ListenerIdle
    /\ UNCHANGED <<enabled, ready, next_test, monitored_event_types, event_history,
                   registered, delivered, call, ret, atta_class, handler>>

\* AtkAtta._on_load_complete(data) of the listener thread of an Atta
Atta_on_load_complete ==
    /\ atta_class = "Atta"
    /\ on_load_complete

NextHandler ==
    \/ dispatch
    \/ AttaRequestHandler_start_test
    \/ set_next_test_ready
    \/ AttaRequestHandler_start_test_ready
    \/ AttaRequestHandler_start_listen
    \/ AttaRequestHandler_stop_listen
    \/ AttaRequestHandler_end_test
    \/ AtkAtspi_on_load_complete
    \/ AtkAtspi_on_load_complete_uri
    \/ AtkAtspi_on_load_complete_document
    \/ Atta_on_load_complete

SpecHandler == InitHandler /\ [][NextHandler]_vars

(***************************************************************************)
(* An Atta with its two threads: the server thread runs the public methods *)
(* (one request at a time), the listener thread that AtkAtta.start creates *)
(* runs the callbacks _on_load_complete and _on_test_event.  The callbacks *)
(* share _ready, _next_test, _current_document and _event_history with the *)
(* server thread and take no lock, so the steps of a callback interleave   *)
(* with the methods of the server thread.                                  *)
(***************************************************************************)
\* AtkAtta._on_load_complete(data) calls is_ready(data.source): the listener
\* thread returns if _ready holds or no test is set, else it has read
\* _next_test and goes on to ask the platform for the document's URI
Atta_is_ready_begin ==
    \E source \in Documents :
        /\ enabled
        /\ listener.pc = "idle"
        /\ listener' = IF ready \/ next_test[1] = None THEN ListenerIdle
                       ELSE [ListenerIdle EXCEPT !.pc = "get_uri", !.source = source,
                                                 !.test_name = next_test[1],
                                                 !.test_uri = next_test[2]]
        /\ UNCHANGED <<attaVars, call, ret, atta_class, handler>>

\* "uri = self._get_uri(document)" and "self._ready = uri and uri == test_uri"
Atta_is_ready_uri ==
    /\ listener.pc = "get_uri"
    /\ \E uri \in get_uri(listener.source) :
          ready' = (uri # "" /\ uri = listener.test_uri)
    /\ listener' = [listener EXCEPT !.pc = "if_ready"]
    /\ UNCHANGED <<enabled, next_test, current_document, monitored_event_types,
                   event_history, registered, delivered, call, ret, atta_class,
                   handler>>

\* "if self._ready: self._current_document = document"
Atta_is_ready_document ==
    /\ listener.pc = "if_ready"
    /\ current_document' = IF ready THEN listener.source ELSE current_document
    /\ listener' = ListenerIdle
    /\ UNCHANGED <<enabled, ready, next_test, monitored_event_types, event_history,
                   registered, delivered, call, ret, atta_class, handler>>

\* AtkAtta._on_test_event(data): the listener thread evaluates
\* _in_current_document(data.source), walking the ancestors of the source
on_test_event_begin ==
    \E data \in TestEvents :
        /\ enabled
        /\ listener.pc = "idle"
        /\ registered[data.type] > 0
        /\ delivered < MaxEvents
        /\ delivered' = delivered + 1
        /\ listener' = IF in_current_document(data.source)
                       THEN [ListenerIdle EXCEPT !.pc = "append", !.data = data]
                       ELSE ListenerIdle
        /\ UNCHANGED <<enabled, ready, next_test, current_document,
                       monitored_event_types, event_history, registered, call, ret,
                       atta_class, handler>>

\* "self._event_history.append(data)", on the list _event_history then names
on_test_event_append ==
    /\ listener.pc = "append"
    /\ event_history' = Append(event_history, listener.data)
    /\ listener' = ListenerIdle
    /\ UNCHANGED <<enabled, ready, next_test, current_document,
                   monitored_event_types, registered, delivered, call, ret,
                   atta_class, handler>>

NextThreads ==
    \/ Do_is_ready
    \/ start_test_run
    \/ start_listen
    \/ stop_listen
    \/ end_test_run
    \/ Atta_is_ready_begin
    \/ Atta_is_ready_uri
    \/ Atta_is_ready_document
    \/ on_test_event_begin
    \/ on_test_event_append

SpecThreads == Init /\ [][NextThreads]_vars

(***************************************************************************)
(* AtkAtta.get_relation_targets and AttaRelationAssertion._get_value        *)
(***************************************************************************)
\* the relations of a relation set, and the targets of a relation
MaxRelations == 2
MaxTargets == 2

\* Atspi.RelationType values, by their value_name
RelationTypes == {"ATSPI_RELATION_LABELLED_BY", "ATSPI_RELATION_CONTROLLER_FOR"}

\* the name a test file uses for a relation type (value_to_string of the type)
RelationName ==
    [ATSPI_RELATION_LABELLED_BY |-> "RELATION_LABELLED_BY",
     ATSPI_RELATION_CONTROLLER_FOR |-> "RELATION_CONTROLLER_FOR"]

\* a value of type Atspi.RelationType, and a str
EnumValue(value_name) == [t |-> "RelationType", v |-> value_name]
StrValue(s) == [t |-> "str", v |-> s]

\* a == b of Python for an Atspi.RelationType (an int) and a str or another
\* Atspi.RelationType: values of the two types never compare equal
EnumEq(a, b) == a.t = b.t /\ a.v = b.v

\* what a caller can pass as relation_type
RelationTypeArgs ==
    {EnumValue(ty) : ty \in RelationTypes} \cup {StrValue(RelationName[ty]) : ty \in RelationTypes}

\* the relation sets Atspi.Accessible.get_relation_set can answer
Relations ==
    [relation_type : RelationTypes,
     targets : {q \in SeqsUpTo({"e1", "e2"}, MaxTargets) :
                   \A i, j \in DOMAIN q : i # j => q[i] # q[j]}]
RelationSets == SeqsUpTo(Relations, MaxRelations)

\* list(filter(is_type, relation_set))
RECURSIVE FilterType(_, _)
FilterType(relation_set, relation_type) ==
    IF relation_set = <<>> THEN <<>>
    ELSE (IF EnumEq(EnumValue(Head(relation_set).relation_type), relation_type)
          THEN <<Head(relation_set)>> ELSE <<>>)
         \o FilterType(Tail(relation_set), relation_type)

\* lines 342-345: nothing unless exactly one relation has the type
targets_of_only_relation(relations) ==
    IF ~(Len(relations) = 1) THEN <<>>
    ELSE [i \in 1..Len(relations[1].targets) |-> relations[1].targets[i]]

get_relation_targets(obj, relation_set, relation_type) ==
    IF obj = None
    THEN [raised |-> "AttributeError", message |-> "Object not found", targets |-> <<>>]
    ELSE [raised |-> None, message |-> "",
          targets |-> targets_of_only_relation(FilterType(relation_set, relation_type))]

\* the characters of AtkAtta._get_id(obj)
IdChars == [d1 |-> <<>>, d2 |-> <<>>, e1 |-> <<"i", "d", "1">>, e2 |-> <<"i", "d", "2">>]

\* " ".join(strings)
RECURSIVE Join(_)
Join(strings) ==
    IF strings = <<>> THEN <<>>
    ELSE IF Len(strings) = 1 THEN strings[1]
    ELSE strings[1] \o <<" ">> \o Join(Tail(strings))

\* AttaRelationAssertion._get_value: the value returned and self._messages
AttaRelationAssertion_get_value(obj, relation_set, test_string) ==
    LET r == get_relation_targets(obj, relation_set, StrValue(test_string)) IN
    IF r.raised # None
    THEN [value |-> PyNone, messages |-> <<"ERROR: " \o r.message>>, targets |-> r.targets]
    ELSE [value |-> PyStr(<<"[">> \o Join([i \in DOMAIN r.targets |-> IdChars[r.targets[i]]])
                          \o <<"]">>),
          messages |-> <<>>, targets |-> r.targets]

Do_get_relation_targets ==
    /\ call = NoCall
    /\ \E obj \in {None, "e1"}, relation_set \in RelationSets, relation_type \in RelationTypeArgs :
           /\ call' = [op |-> "get_relation_targets", obj |-> obj,
                       relation_set |-> relation_set, relation_type |-> relation_type]
           /\ ret' = get_relation_targets(obj, relation_set, relation_type)
           /\ UNCHANGED <<attaVars, handlerVars>>

Do_RelationAssertion_get_value ==
    /\ call = NoCall
    /\ \E obj \in {None, "e1"}, relation_set \in RelationSets, ty \in RelationTypes :
           /\ call' = [op |-> "AttaRelationAssertion._get_value", obj |-> obj,
                       relation_set |-> relation_set,
                       relation_type |-> StrValue(RelationName[ty])]
           /\ ret' = AttaRelationAssertion_get_value(obj, relation_set, RelationName[ty])
           /\ UNCHANGED <<attaVars, handlerVars>>

(***************************************************************************)
(* Atta.value_to_string on scalars and nested containers                    *)
(***************************************************************************)
\* the elements of a container, and how deep containers nest
MaxItems == 2
MaxDepth == 2

Scalars ==
    {PyNone, PyBool(TRUE), PyBool(FALSE), PyInt(12), PyInt(-3), PyFloat(1, <<"5">>),
     PyRange, PyStr(s_a), PyStr(s_true)}

ContainersOf(items) ==
    {PyTuple(xs) : xs \in items} \cup {PyList(xs) : xs \in items}
    \cup {PySet(Elements(xs)) : xs \in items}

\* containers of scalars, and containers of one container each up to MaxDepth
RECURSIVE Containers(_)
Containers(depth) ==
    IF depth = 1 THEN ContainersOf(SeqsUpTo(Scalars, MaxItems))
    ELSE ContainersOf({<<c>> : c \in Containers(depth - 1)})

Dicts == {PyDict(<<<<"type", v>>>>) : v \in {PyBool(TRUE), PyInt(12), PyList(<<PyInt(0)>>)}}

Values == Scalars \cup Dicts \cup UNION {Containers(depth) : depth \in 1..MaxDepth}

Do_value_to_string ==
    /\ call = NoCall
    /\ \E value \in Values :
           /\ call' = [op |-> "value_to_string", value |-> value]
           /\ ret' = [result |-> value_to_string(value)]
           /\ UNCHANGED <<attaVars, handlerVars>>

(***************************************************************************)
(* AtkAtta.get_client_side_method                                           *)
(***************************************************************************)
\* sub in string
Contains(sub, string) ==
    \E i \in 1..(Len(string) - Len(sub) + 1) : SubSeq(string, i, i + Len(sub) - 1) = sub

\* string.replace(old, new), for a non-empty old
RECURSIVE Replace(_, _, _)
Replace(string, old, new) ==
    IF Len(string) < Len(old) THEN string
    ELSE IF SubSeq(string, 1, Len(old)) = old
    THEN new \o Replace(SubSeq(string, Len(old) + 1, Len(string)), old, new)
    ELSE SubSeq(string, 1, 1) \o Replace(SubSeq(string, 2, Len(string)), old, new)

\* "Things which are unique or hard to reliably map via heuristic."
mappings ==
    <<<<"atk_selection_add_selection", "atspi_selection_select_child">>,
      <<"atk_selection_ref_selection", "atspi_selection_get_selected_child">>,
      <<"atk_selection_remove_selection", "atspi_selection_deselect_selected_child">>,
      <<"atk_selection_select_all_selection", "atspi_selection_select_all">>,
      <<"atk_value_set_value", "atspi_value_set_current_value">>,
      <<"atk_value_get_increment", "atspi_value_get_minimum_increment">>>>

\* mappings.get(symbol)
mappings_get(symbol) ==
    IF \E i \in DOMAIN mappings : mappings[i][1] = symbol
    THEN mappings[CHOOSE i \in DOMAIN mappings : mappings[i][1] = symbol][2]
    ELSE None

\* x in a list of strings
InList(x, list) == \E i \in DOMAIN list : list[i] = x

\* list.index(x)
Index(x, list) == CHOOSE i \in DOMAIN list : list[i] = x /\ \A j \in 1..(i - 1) : list[j] # x

replace_ref_at(candidate_symbol) == Replace(candidate_symbol, "_ref_at", "_get_accessible_at")

replace_ref_by_get_accessible(candidate_symbol) ==
    Replace(candidate_symbol, "_ref_at", "_get_accessible_at")

replace_ref(candidate_symbol) == Replace(candidate_symbol, "_ref_", "_get_")

\* the symbol of the method returned for the symbol of the server-side method,
\* None when none is
client_side_symbol(server_side_symbol, client_side_symbols) ==
    LET mapped == mappings_get(server_side_symbol)
        candidate_symbol == Replace(server_side_symbol, "atk", "atspi")
        collapsed == Replace(candidate_symbol, "_", "")
        matches == [i \in DOMAIN client_side_symbols |->
                       Replace(client_side_symbols[i], "_", "")]
        get_n == SelectSeq(client_side_symbols, LAMBDA x : Contains("get_n_", x))
    IN  IF InList(mapped, client_side_symbols) THEN mapped
        ELSE IF InList(candidate_symbol, client_side_symbols) THEN candidate_symbol
        ELSE IF InList(replace_ref(candidate_symbol), client_side_symbols)
        THEN replace_ref(candidate_symbol)
        ELSE IF InList(replace_ref_at(candidate_symbol), client_side_symbols)
        THEN replace_ref_at(candidate_symbol)
        ELSE IF InList(collapsed, matches)
        THEN client_side_symbols[Index(collapsed, matches)]
        ELSE IF /\ Contains("_get_", server_side_symbol)
                /\ Contains("_count", server_side_symbol)
                /\ Len(get_n) = 1
        THEN get_n[1]
        ELSE None

\* "return None" as a method
NoMethod == [container |-> None, symbol |-> None]

\* server_side_method and the method returned: the interface that contains
\* the method and its symbol; info.found tells whether the Atspi namespace has
\* an interface of the name, info.symbols are the symbols of its methods
get_client_side_method(server_side_method, info) ==
    IF ~info.found THEN NoMethod
    ELSE LET symbol == client_side_symbol(server_side_method.symbol, info.symbols) IN
         IF symbol = None THEN NoMethod
         ELSE [container |-> info.name, symbol |-> symbol]

\* the methods of an interface that take part
MaxSymbols == 2

ServerSideMethods ==
    {[container |-> "Selection", symbol |-> "atk_selection_add_selection"],
     [container |-> "Selection", symbol |-> "atk_selection_ref_selection"],
     [container |-> "Selection", symbol |-> "atk_selection_get_selection_count"],
     [container |-> "Table", symbol |-> "atk_table_ref_at"],
     [container |-> "Action", symbol |-> "atk_action_get_keybinding"],
     [container |-> "Text", symbol |-> "atk_text_get_text"]}

ClientSideSymbols ==
    {"atspi_selection_select_child", "atspi_selection_add_selection",
     "atspi_selection_get_selected_child", "atspi_selection_get_selection",
     "atspi_selection_get_selectioncount", "atspi_selection_get_n_selected_children",
     "atspi_selection_get_n_items", "atspi_table_get_accessible_at",
     "atspi_table_get_at", "atspi_action_get_key_binding"}

\* the symbols of an interface, each once
SymbolLists ==
    {q \in SeqsUpTo(ClientSideSymbols, MaxSymbols) :
        \A i, j \in DOMAIN q : i # j => q[i] # q[j]}

\* gir.find_by_name("Atspi", interface)
Infos(interface) ==
    {[name |-> interface, found |-> FALSE, symbols |-> <<>>]}
    \cup {[name |-> interface, found |-> TRUE, symbols |-> q] : q \in SymbolLists}

Do_get_client_side_method ==
    /\ call = NoCall
    /\ \E server_side_method \in ServerSideMethods :
         \E info \in Infos(server_side_method.container) :
           /\ call' = [op |-> "get_client_side_method",
                       server_side_method |-> server_side_method, info |-> info]
           /\ ret' = [result |-> get_client_side_method(server_side_method, info)]
           /\ UNCHANGED <<attaVars, handlerVars>>

(***************************************************************************)
(* The pure functions, each applied once to inputs of the bounded sets      *)
(***************************************************************************)
NextPure ==
    \/ Do_get_result
    \/ Do_EventAssertion
    \/ Do_run_test
    \/ Do_create_platform_assertions
    \/ Do_get_relation_targets
    \/ Do_RelationAssertion_get_value
    \/ Do_value_to_string
    \/ Do_get_client_side_method

SpecPure == InitPure /\ [][NextPure]_vars

(***************************************************************************)
(* C2                                                                      *)
(***************************************************************************)
ClaimedVerbs == {"is", "exists", "isNot", "contains", "isAny", "isType"}

\* the comparison C2 names for a verb, on the expected value e and the
\* retrieved value x; "contains" is given as a parameter
C2_Compares(verb, e, x, containsRule) ==
    CASE verb \in {"is", "exists"} -> PyEq(e, value_to_string(x))
      [] verb = "isNot" -> ~PyEq(e, value_to_string(x))
      [] verb = "contains" -> containsRule
      [] verb = "isAny" -> In(value_to_string(x), e)
      [] verb = "isType" -> PyEq(type_to_string(x), e)

C5_AsStated ==
    call.op = "_run_test" =>
        /\ ret.raised = None
        /\ ret.result \in {STATUS_PASS, STATUS_FAIL}

(***************************************************************************)
(* C6                                                                      *)
(***************************************************************************)
NonEvents(assertions) == SelectSeq(assertions, LAMBDA x : ~is_event(x))

EventNames(assertions) ==
    {assertions[i][2] : i \in {j \in DOMAIN assertions : is_event(assertions[j])}}

\* the value of the last event assertion of the list that is named name
LastValue(assertions, name) ==
    LET last == CHOOSE i \in DOMAIN assertions :
                    /\ is_event(assertions[i]) /\ assertions[i][2] = name
                    /\ \A j \in DOMAIN assertions :
                          (is_event(assertions[j]) /\ assertions[j][2] = name) => j <= i
    IN assertions[last][4]

\* C6: with no assertion of class "event" the input is returned unchanged;
\* otherwise the output is the non-event assertions in their original order
\* followed by exactly one assertion ["event", "event", "contains", P], where P
\* maps each event assertion's name to its value, the last value winning.
C6_CombinesEvents ==
    call.op = "_create_platform_assertions" =>
        LET input == call.assertions
            n == Len(NonEvents(input))
        IN IF EventNames(input) = {}
           THEN ret = input
           ELSE /\ Len(ret) = n + 1
                /\ SubSeq(ret, 1, n) = NonEvents(input)
                /\ ret[n + 1][1] = "event" /\ ret[n + 1][2] = "event"
                /\ ret[n + 1][3] = "contains"
                /\ ret[n + 1][4].t = "dict"
                /\ Keys(ret[n + 1][4]) = EventNames(input)
                /\ Len(ret[n + 1][4].d) = Cardinality(EventNames(input))
                /\ \A name \in EventNames(input) :
                      Get(ret[n + 1][4], name) = LastValue(input, name)

\* a request with a non-event assertion between two event assertions of the
\* same name and different values was combined
C6_Witness ==
    /\ call.op = "_create_platform_assertions"
    /\ call.assertions = <<(<<"event", "type", "is", PyStr(s_a)>>),
                           (<<"property", "role", "is", PyStr(s_a)>>),
                           (<<"event", "type", "is", PyStr(s_ab)>>)>>
    /\ Len(ret) = 2
    /\ Get(ret[2][4], "type") = PyStr(s_ab)

(***************************************************************************)
(* C7 and C8                                                               *)
(***************************************************************************)
\* event e agrees with every attribute the expectation d specifies
Agrees(e, d) ==
    /\ Has(d, "type") => PyStr(e.type) = Get(d, "type")
    /\ Has(d, "detail1") => e.detail1 = StrToNat(Get(d, "detail1").s)
    /\ Has(d, "detail2") => e.detail2 = StrToNat(Get(d, "detail2").s)
    /\ Has(d, "any_data") => e.any_data = Get(d, "any_data")

\* C7: the events an event assertion matches are exactly the events of the
\* history that agree with every attribute the expectation specifies; an
\* attribute it does not specify, type included, constrains nothing, and
\* building the assertion fails for no subset of specified attributes.
C7_AsStated ==
    call.op = "EventAssertion" =>
        /\ ret.built = None
        /\ ret.matching = SelectSeq(call.events, LAMBDA e : Agrees(e, call.expected))

\* C8: an event assertion (one that could be built) gets status PASS exactly
\* when at least one event of the history matches the asserted properties, and
\* FAIL when none does.
C8_AsStated ==
    (call.op = "EventAssertion" /\ ret.built = None) =>
        LET matched == \E i \in DOMAIN call.events : Agrees(call.events[i], call.expected)
        IN /\ ret.status = STATUS_PASS <=> matched
           /\ ~matched => ret.status = STATUS_FAIL

C3_RefusesWhenNotReady ==
    call.op = "run_tests" /\ (~enabled \/ ~ready) =>
        /\ ret.raised = None
        /\ ret.status = "ERROR"
        /\ ret.message = (IF ~enabled THEN "ATTA not enabled" ELSE "ATTA not ready")
        /\ ret.results = <<>>
        /\ ~ret.looked_up
        /\ ret.evaluated = 0

C3_Witness ==
    /\ call.op = "run_tests" /\ call.assertions # <<>>
    /\ enabled /\ ~ready /\ next_test[1] # None /\ current_document # None
    /\ ret.message = "ATTA not ready"

(***************************************************************************)
(* C4                                                                      *)
(***************************************************************************)
\* C4 as stated: run_tests of an enabled and ready ATTA returns status OK
\* with one result per platform assertion made from the submitted
\* assertions, in their order, each the result of running that assertion
C4_AsStated ==
    call.op = "run_tests" /\ enabled /\ ready =>
        /\ ret.raised = None
        /\ ret.status = "OK"
        /\ Len(ret.results) = Len(create_platform_assertions(call.assertions))
        /\ \A i \in 1..Len(ret.results) : ret.results[i].raised = None

(***************************************************************************)
(* C9                                                                      *)
(***************************************************************************)
\* C9 as stated: a start request is answered READY only after a document
\* whose URI equals the url of the request has been found since the request
\* was received
C9_AsStated ==
    handler.pc = "done" /\ handler.path = "start" /\ handler.status = "READY" =>
        handler.found

(***************************************************************************)
(* C10                                                                     *)
(***************************************************************************)
\* C10 as stated: served an Atta, the handler completes each start,
\* startlisten and stoplisten request with a response; a start request sets
\* the next test to the submitted name and url, a startlisten request makes
\* the ATTA monitor the submitted event types and a stoplisten request makes
\* it monitor none
C10_AsStated ==
    /\ atta_class = "Atta" /\ handler.pc = "done"
    /\ handler.path \in {"start", "startlisten", "stoplisten"}
    => /\ handler.raised = None
       /\ handler.status \in {"READY", "ERROR"}
       /\ handler.status = "READY" =>
            /\ handler.path = "start" => next_test = <<handler.test, handler.url>>
            /\ handler.path = "startlisten" => monitored_event_types = handler.events
            /\ handler.path = "stoplisten" => monitored_event_types = <<>>

(***************************************************************************)
(* C11                                                                     *)
(***************************************************************************)
\* C11 as stated: in every state in which no callback is under way, if the
\* ATTA is ready then a next test is set, a current document is set and the
\* URI of that document is the url of the next test; and a step that sets a
\* new next test (start_test_run) leaves the ATTA not ready
C11_AsStated ==
    /\ [](listener.pc = "idle" /\ ready =>
            /\ next_test[1] # None
            /\ current_document # None
            /\ UriOf[current_document] = next_test[2])
    /\ [][next_test' # next_test /\ next_test'[1] # None => ~ready']_vars

(***************************************************************************)
(* C12                                                                     *)
(***************************************************************************)
\* C12 as stated: once an end request has been served by end_test_run, the
\* current document is None, the next test is (None, "") and the ATTA is not
\* ready
C12_AsStated ==
    handler.pc = "done" /\ handler.path = "end" /\ handler.status = "DONE" =>
        /\ current_document = None
        /\ next_test = <<None, "">>
        /\ ~ready

(***************************************************************************)
(* C13                                                                     *)
(***************************************************************************)
\* how many times ty occurs in the list types
Count(ty, types) == Cardinality({i \in DOMAIN types : types[i] = ty})

\* C13: a start_listen(E) step leaves an empty event history and E, in the
\* order given, as the list of monitored types, having registered every type
\* of E once per occurrence; a stop_listen step deregisters every type that
\* was monitored and leaves the list of monitored types and the event history
\* empty
C13_StartStopListen ==
    [][/\ call'.op = "start_listen" =>
            /\ monitored_event_types' = call'.event_types
            /\ event_history' = <<>>
            /\ \A ty \in EventTypes :
                  registered'[ty] = registered[ty] + Count(ty, call'.event_types)
       /\ call'.op = "stop_listen" =>
            /\ monitored_event_types' = <<>>
            /\ event_history' = <<>>
            /\ \A i \in DOMAIN monitored_event_types :
                  registered'[monitored_event_types[i]]
                     < registered[monitored_event_types[i]]]_vars

\* a second start_listen, for another type than the one already registered
C13_Witness ==
    /\ call.op = "start_listen" /\ call.event_types = <<s_ab>>
    /\ registered[s_a] > 0
    /\ monitored_event_types = <<s_ab>> /\ event_history = <<>>

\* C13, as stated also for AtkAtspiAtta.monitor_events, which the request
\* handler calls for a "startlisten" request: once the request has been
\* answered READY the ATTA monitors exactly the event types of the request, in
\* the order given.
C13_AsStated ==
    handler.pc = "done" /\ handler.path = "startlisten" /\ handler.status = "READY" =>
        monitored_event_types = handler.events


(***************************************************************************)
(* C14                                                                     *)
(***************************************************************************)
\* the Atspi.RelationType a relation_type argument names
TypeNamed(relation_type) ==
    IF relation_type.t = "RelationType" THEN relation_type.v
    ELSE CHOOSE ty \in RelationTypes : RelationName[ty] = relation_type.v

\* the relations of the relation set of the call that have the type asked for
RelationsOfType ==
    {i \in DOMAIN call.relation_set :
        call.relation_set[i].relation_type = TypeNamed(call.relation_type)}

\* C14 as stated: get_relation_targets, called directly or by the relation
\* assertion, returns all targets, in index order, of a relation of the type
\* asked for when the object has one, and the empty list when it has none; for
\* a missing object it raises 'Object not found', which the relation assertion
\* turns into the message 'ERROR: Object not found'
C14_AsStated ==
    call.op \in {"get_relation_targets", "AttaRelationAssertion._get_value"} =>
        IF call.obj = None
        THEN IF call.op = "get_relation_targets"
             THEN ret.raised = "AttributeError" /\ ret.message = "Object not found"
             ELSE ret.messages = <<"ERROR: Object not found">> /\ ret.value = PyNone
        ELSE IF RelationsOfType = {} THEN ret.targets = <<>>
        ELSE \E i \in RelationsOfType : ret.targets = call.relation_set[i].targets

\* C14 for a single relation of the type and a relation type given as an
\* Atspi.RelationType
C14_OneRelation ==
    /\ call.op \in {"get_relation_targets", "AttaRelationAssertion._get_value"}
    /\ call.relation_type.t = "RelationType" \/ call.obj = None
    /\ call.obj # None => Cardinality(RelationsOfType) <= 1
    => C14_AsStated


(***************************************************************************)
(* C15                                                                     *)
(***************************************************************************)
\* C15 as stated: when stop_listen has returned, no event type is registered
\* with the platform for the test-event callback
C15_AsStated ==
    call.op = "stop_listen" => \A ty \in EventTypes : registered[ty] = 0


(***************************************************************************)
(* C16                                                                     *)
(***************************************************************************)
\* C16 as stated: from the return of stop_listen on, whatever the listener
\* thread does, the event history is empty as long as the request-handling
\* thread has called nothing else
C16_AsStated ==
    call.op = "stop_listen" => event_history = <<>>


(***************************************************************************)
(* C17                                                                     *)
(***************************************************************************)
\* obj is the document or one of its descendants
RECURSIVE Inside(_, _)
Inside(obj, document) ==
    /\ obj # None
    /\ obj = document \/ Inside(ParentOf[obj], document)

\* C17 as stated: a test event that is delivered is appended to the event
\* history when a current document is set and the source of the event is that
\* document or one of its descendants, and leaves the history as it is
\* otherwise
C17_AsStated ==
    [][call'.op = "_on_test_event" =>
          IF current_document # None /\ Inside(call'.source, current_document)
          THEN \E data \in TestEvents :
                  /\ data.source = call'.source
                  /\ event_history' = Append(event_history, data)
          ELSE event_history' = event_history]_vars

\* C17 for the sources other than the current document itself
C17_Descendants ==
    [][call'.op = "_on_test_event" /\ call'.source # current_document =>
          IF current_document # None /\ Inside(call'.source, current_document)
          THEN \E data \in TestEvents :
                  /\ data.source = call'.source
                  /\ event_history' = Append(event_history, data)
          ELSE event_history' = event_history]_vars


(***************************************************************************)
(* C18                                                                     *)
(***************************************************************************)
\* the int a decimal string denotes
DecimalValue(s) ==
    IF s # <<>> /\ Head(s) = "-" THEN 0 - StrToNat(Tail(s)) ELSE StrToNat(s)

IsDecimal(s) ==
    IF s # <<>> /\ Head(s) = "-" THEN IsNumeric(Tail(s)) ELSE IsNumeric(s)

\* C18: value_to_string returns a str unchanged, turns a bool into 'true' or
\* 'false', an int into the decimal string that denotes it and a float into
\* the digits of its integer part, a point and the digits after the point; a
\* tuple, a list or a set becomes a tuple, a list or a set of the converted
\* elements (in the same order for a tuple or a list); and converting the
\* result again returns the result unchanged
C18_Canonical ==
    call.op = "value_to_string" =>
        LET value == call.value
            result == ret.result
        IN  /\ value.t = "str" => result = value
            /\ value.t = "bool" =>
                  result = PyStr(IF value.b THEN <<"t", "r", "u", "e">>
                                 ELSE <<"f", "a", "l", "s", "e">>)
            /\ value.t = "int" =>
                  /\ result.t = "str" /\ IsDecimal(result.s)
                  /\ DecimalValue(result.s) = value.n
            /\ value.t = "float" =>
                  /\ result.t = "str"
                  /\ \E k \in DOMAIN result.s :
                        /\ result.s[k] = "."
                        /\ IsDecimal(SubSeq(result.s, 1, k - 1))
                        /\ DecimalValue(SubSeq(result.s, 1, k - 1)) = value.n
                        /\ SubSeq(result.s, k + 1, Len(result.s)) = value.s
            /\ value.t \in {"tuple", "list"} =>
                  /\ result.t = value.t
                  /\ Len(result.items) = Len(value.items)
                  /\ \A k \in DOMAIN value.items :
                        result.items[k] = value_to_string(value.items[k])
            /\ value.t = "set" =>
                  /\ result.t = "set"
                  /\ Elements(result.items)
                        = {value_to_string(x) : x \in Elements(value.items)}
            /\ value_to_string(result) = result

\* a list holding a tuple of a bool and an int has been converted
C18_Witness ==
    /\ call.op = "value_to_string"
    /\ call.value = PyList(<<PyTuple(<<PyBool(TRUE), PyInt(12)>>)>>)
    /\ ret.result = PyList(<<PyTuple(<<PyStr(s_true), PyStr(<<"1", "2">>)>>)>>)


(***************************************************************************)
(* C19                                                                     *)
(***************************************************************************)
\* the client-side symbols each rule yields for the server-side symbol, in the
\* order of the rules
RuleYields(symbol, symbols) ==
    LET candidate == Replace(symbol, "atk", "atspi")
        among(x) == {y \in Elements(symbols) : y = x}
    IN  <<UNION {among(mappings[i][2]) : i \in {j \in DOMAIN mappings : mappings[j][1] = symbol}},
          among(candidate),
          among(Replace(candidate, "_ref_", "_get_")),
          among(Replace(candidate, "_ref_at", "_get_accessible_at")),
          {y \in Elements(symbols) : Replace(y, "_", "") = Replace(candidate, "_", "")},
          IF Contains("_get_", symbol) /\ Contains("_count", symbol)
             /\ Cardinality({y \in Elements(symbols) : Contains("get_n_", y)}) = 1
          THEN {y \in Elements(symbols) : Contains("get_n_", y)} ELSE {}>>

\* C19: the method returned is a method of the AT-SPI2 interface of the same
\* name, with a symbol that the first rule yielding any symbol of that
\* interface yields (mapping table, 'atk' -> 'atspi', then also '_ref_' ->
\* '_get_', then '_ref_at' -> '_get_accessible_at', then equality without
\* underscores, then the single 'get_n_' symbol for a '_get_..._count'
\* symbol); None is returned when the interface has no AT-SPI2 counterpart or
\* no rule yields a symbol
C19_FirstRule ==
    call.op = "get_client_side_method" =>
        LET yields == RuleYields(call.server_side_method.symbol, call.info.symbols)
            applying == {k \in DOMAIN yields : yields[k] # {}}
        IN  IF ~call.info.found \/ applying = {} THEN ret.result = NoMethod
            ELSE /\ ret.result.container = call.server_side_method.container
                 /\ \E k \in applying :
                       /\ \A j \in applying : k <= j
                       /\ ret.result.symbol \in yields[k]

\* both the '_ref_' rule and the '_ref_at' rule yield a symbol of the
\* interface, and the symbol of the '_ref_' rule is returned
C19_Witness ==
    /\ call.op = "get_client_side_method"
    /\ call.server_side_method.symbol = "atk_table_ref_at"
    /\ call.info.symbols = <<"atspi_table_get_accessible_at", "atspi_table_get_at">>
    /\ ret.result = [container |-> "Table", symbol |-> "atspi_table_get_at"]


====
